---- MODULE Spec2Model ----
(***************************************************************************)
(* A model of pdf_puppeteer: the option mapper                             *)
(* (generator.map_frappe_options_to_puppeteer) and the render invoker      *)
(* (generator.get_pdf), which writes the markup to a temporary file, runs  *)
(* the node renderer as a child process with a 30 second deadline and      *)
(* writes the captured PDF bytes to the output sink.  Further               *)
(* specifications over the same variables: SpecMap (the mapper alone),     *)
(* SpecCancel (a call interrupted by its caller), SpecConc (calls side by  *)
(* side on one temporary directory), SpecVal (the patches of the           *)
(* framework's validator of parameter types) and SpecOpt (the options of   *)
(* Print Format's pdf_generator field).                                    *)
(***************************************************************************)
EXTENDS Integers, Sequences, FiniteSets, TLC

(***************************************************************************)
(* Bounds of the model.                                                    *)
(***************************************************************************)
\* longest scale string the inputs hold
MaxScaleLen == 2
\* most bytes the renderer writes to its standard output
MaxOut == 2
\* most bytes the renderer writes to its standard error
MaxErr == 1
\* file names the temporary directory can hold
MaxNames == 2
\* the pieces of text of the stored option string, at most
MaxRaw == 4

(***************************************************************************)
(* Python values.  Every value is a record of the same shape, so that any  *)
(* two values can be compared: tag is the Python type, n the number (a     *)
(* float is held exactly, in units of 10^-FracDigits), s the symbols of a  *)
(* str.  A str the code parses (scale) is a sequence of characters; a str  *)
(* the code only copies or compares is a single symbol.                    *)
(***************************************************************************)
FracDigits == MaxScaleLen + 1

RECURSIVE Pow10(_)
Pow10(k) == IF k = 0 THEN 1 ELSE 10 * Pow10(k - 1)

PyNone == [tag |-> "None", n |-> 0, s |-> <<>>]
PyInt(k) == [tag |-> "int", n |-> k, s |-> <<>>]
PyBool(b) == [tag |-> "bool", n |-> IF b THEN 1 ELSE 0, s |-> <<>>]
PyStr(cs) == [tag |-> "str", n |-> 0, s |-> cs]
\* the float whose value is units * 10^-FracDigits
PyFloat(units) == [tag |-> "float", n |-> units, s |-> <<>>]

\* Python's truth value of a value: None, 0, 0.0, False and "" are false
Truthy(v) ==
  CASE v.tag = "None" -> FALSE
    [] v.tag = "str" -> v.s # <<>>
    [] OTHER -> v.n # 0

\* dict.get(key): the value, or None when the key is absent
Get(d, k) == IF k \in DOMAIN d THEN d[k] ELSE PyNone

EmptyDict == [k \in {} |-> PyNone]

\* d[k] = v
Put(d, k, v) == [x \in (DOMAIN d) \cup {k} |-> IF x = k THEN v ELSE d[x]]

(***************************************************************************)
(* float(x) on the characters "1", "." and "a": a str is a float literal   *)
(* iff it holds digits and at most one point, and at least one digit.      *)
(***************************************************************************)
Digits == {"1"}

RECURSIVE CountOf(_, _)
CountOf(cs, c) ==
  IF cs = <<>> THEN 0
  ELSE (IF Head(cs) = c THEN 1 ELSE 0) + CountOf(Tail(cs), c)

RECURSIVE DigitsValue(_)
\* the number the digits of cs spell, the point skipped
DigitsValue(cs) ==
  IF cs = <<>> THEN 0
  ELSE LET c == cs[Len(cs)]
           rest == DigitsValue(SubSeq(cs, 1, Len(cs) - 1))
       IN IF c = "." THEN rest ELSE 10 * rest + 1

RECURSIVE FracLen(_)
\* the number of digits after the point
FracLen(cs) ==
  IF cs = <<>> \/ CountOf(cs, ".") = 0 THEN 0
  ELSE IF cs[Len(cs)] = "." THEN 0
  ELSE 1 + FracLen(SubSeq(cs, 1, Len(cs) - 1))

IsFloatLiteral(cs) ==
  /\ \A i \in 1..Len(cs) : cs[i] \in Digits \cup {"."}
  /\ CountOf(cs, ".") <= 1
  /\ \E i \in 1..Len(cs) : cs[i] \in Digits

\* whether float(v) returns (it raises ValueError or TypeError otherwise)
FloatOk(v) ==
  CASE v.tag = "str" -> IsFloatLiteral(v.s)
    [] v.tag = "None" -> FALSE
    [] OTHER -> TRUE

\* float(v), for a v with FloatOk(v)
Float(v) ==
  CASE v.tag = "str" ->
         PyFloat(DigitsValue(v.s) * Pow10(FracDigits - FracLen(v.s)))
    [] v.tag = "float" -> v
    [] OTHER -> PyFloat(v.n * Pow10(FracDigits))


(***************************************************************************)
(* map_frappe_options_to_puppeteer, one operator per section of the        *)
(* function; d is puppeteer_opts as built so far.                          *)
(***************************************************************************)
MapPageSize(opts, d) ==
  LET page_size == Get(opts, "page-size")
  IN IF Truthy(page_size) THEN Put(d, "format", page_size) ELSE d

\* a variant that takes every orientation but "Landscape" for portrait
MapOrientation_Default(opts, d) ==
  LET orientation == Get(opts, "orientation")
  IN IF orientation = PyStr(<<"Landscape">>) THEN Put(d, "landscape", PyBool(TRUE))
     ELSE Put(d, "landscape", PyBool(FALSE))

MapOrientation(opts, d) ==
  LET orientation == Get(opts, "orientation")
  IN IF orientation = PyStr(<<"Landscape">>) THEN Put(d, "landscape", PyBool(TRUE))
     ELSE IF orientation = PyStr(<<"Portrait">>) THEN Put(d, "landscape", PyBool(FALSE))
     ELSE d

\* the option key of each side of the margin object
MarginKey(side) == CASE side = "top" -> "margin-top"
                     [] side = "right" -> "margin-right"
                     [] side = "bottom" -> "margin-bottom"
                     [] side = "left" -> "margin-left"

Sides == {"top", "right", "bottom", "left"}

\* a side goes into the margin object when its value is truthy
MarginIncluded(v) == Truthy(v)

MapMargins(opts, d) ==
  LET kept == {side \in Sides : MarginIncluded(Get(opts, MarginKey(side)))}
      margin == [side \in kept |-> Get(opts, MarginKey(side))]
  IN IF \E side \in Sides : Truthy(Get(opts, MarginKey(side)))
     THEN Put(d, "margin", margin)
     ELSE d

\* a variant that emits the flag whenever the key is given
MapPrintBackground_Explicit(opts, d) ==
  IF "print-background" \in DOMAIN opts
  THEN Put(d, "printBackground", PyBool(Truthy(opts["print-background"])))
  ELSE d

MapPrintBackground(opts, d) ==
  IF Truthy(Get(opts, "print-background"))
  THEN Put(d, "printBackground", PyBool(TRUE))
  ELSE d

MapPageRanges(opts, d) ==
  LET page_ranges == Get(opts, "page-ranges")
  IN IF Truthy(page_ranges) THEN Put(d, "pageRanges", page_ranges) ELSE d

\* the scale section: float(scale) raises ValueError on a str that is no
\* float literal; raised is "" when the section completes
MapScale(opts, d) ==
  LET scale == Get(opts, "scale")
  IN IF Truthy(scale)
     THEN IF FloatOk(scale)
          THEN [raised |-> "", value |-> Put(d, "scale", Float(scale))]
          ELSE [raised |-> "ValueError", value |-> EmptyDict]
     ELSE [raised |-> "", value |-> d]

map_frappe_options_to_puppeteer(opts) ==
  MapScale(opts,
    MapPageRanges(opts,
      MapPrintBackground(opts,
        MapMargins(opts,
          MapOrientation(opts,
            MapPageSize(opts, EmptyDict))))))

(***************************************************************************)
(* The inputs.                                                             *)
(***************************************************************************)
OptionKeys == {"page-size", "orientation", "margin-top", "margin-right",
               "margin-bottom", "margin-left", "print-background",
               "page-ranges", "scale"}

\* marks a key the caller did not pass
Missing == [tag |-> "missing", n |-> 0, s |-> <<>>]

\* the options dict of a choice of value-or-Missing per key
Dict(f) == [k \in {x \in DOMAIN f : f[x] # Missing} |-> f[k]]

ScaleChars == {"1", ".", "a"}

RECURSIVE SeqsUpTo(_, _)
\* the sequences over S of length at most k
SeqsUpTo(S, k) ==
  IF k = 0 THEN {<<>>}
  ELSE LET shorter == SeqsUpTo(S, k - 1)
       IN shorter \cup {Append(q, x) : q \in shorter, x \in S}

ScaleValues ==
  {Missing, PyInt(0), PyInt(2)} \cup {PyStr(cs) : cs \in SeqsUpTo(ScaleChars, MaxScaleLen)}

MarginValues == {Missing, PyInt(0), PyStr(<<"10mm">>)}

OrientationValues ==
  {Missing, PyStr(<<"Landscape">>), PyStr(<<"Portrait">>), PyStr(<<"landscape">>)}

\* every options dict the mapper is applied to
AllOptions ==
  {Dict([k \in OptionKeys |->
          CASE k = "page-size" -> ps
            [] k = "orientation" -> o
            [] k = "margin-top" -> mt
            [] k = "margin-right" -> mr
            [] k = "margin-bottom" -> mb
            [] k = "margin-left" -> ml
            [] k = "print-background" -> pb
            [] k = "page-ranges" -> pr
            [] k = "scale" -> sc]) :
     ps \in {Missing, PyStr(<<"A4">>)},
     o \in OrientationValues,
     mt \in MarginValues, mr \in MarginValues,
     mb \in MarginValues, ml \in MarginValues,
     pb \in {Missing, PyBool(FALSE), PyBool(TRUE), PyInt(1)},
     pr \in {Missing, PyStr(<<"1-3">>)},
     sc \in ScaleValues}

\* the options dicts of the get_pdf calls: the scale absent, numeric and
\* not numeric, a margin of 0, and the spec's example
CallOptions ==
  { EmptyDict,
    Dict([k \in {"scale"} |-> PyStr(<<"1", ".">>)]),
    Dict([k \in {"scale"} |-> PyStr(<<"a">>)]),
    Dict([k \in {"margin-top"} |-> PyInt(0)]),
    [k \in {"page-size", "orientation", "print-background"} |->
       CASE k = "page-size" -> PyStr(<<"A4">>)
         [] k = "orientation" -> PyStr(<<"Landscape">>)
         [] k = "print-background" -> PyBool(TRUE)] }

\* the generator selectors; "None" is the parameter's default, None
Selectors == {"puppeteer", "chrome", "None"}

Contents == {"<p>a</p>"}

\* the bytes the renderer writes to its standard output
PdfBytes == {37, 80}
\* the bytes the renderer writes to its standard error: "E", and 255, which
\* no UTF-8 text holds
ErrBytes == {69, 255}

\* timeout=30 of subprocess.run
TIMEOUT == 30
\* how long the renderer runs
Durations == {1, TIMEOUT + 1}

Names == 1..MaxNames

(***************************************************************************)
(* The state.                                                              *)
(***************************************************************************)
VARIABLES
  options,            \* the options dict passed in
  map_result,         \* what a direct call of the mapper gave
  pdf_generator,      \* the generator selector passed to get_pdf
  html,               \* the markup passed to get_pdf
  output,             \* the sink passed to get_pdf: "path" or "stream"
  sink,               \* the sink: whether the file exists, and its bytes
  sink0,              \* the sink as it was when get_pdf was called
  host,               \* the host: which files exist, whether node is installed
  pc,                 \* where get_pdf is
  script_path,        \* "" until located, then "app" or "bench"
  html_path,          \* 0 until the temporary file is named
  tmpdir,             \* the temporary directory: name -> content
  puppeteer_options,  \* the mapped options
  pdf_options_json,   \* env['PDF_OPTIONS_JSON']
  child,              \* the renderer process
  result,             \* what subprocess.run gave
  exc,                \* the exception in flight, or raised by the call
  probes,             \* the paths os.path.exists was asked about, in order
  launches,           \* the child processes launched so far
  calls,              \* the get_pdf calls running side by side
  validation,         \* a call of the patched parameter-type validator
  print_format        \* the options of Print Format's pdf_generator field

vars == <<options, map_result, pdf_generator, html, output, sink, sink0, host, pc,
          script_path, html_path, tmpdir, puppeteer_options, pdf_options_json,
          child, result, exc, probes, launches, calls, validation, print_format>>

\* the state outside a single get_pdf call
others == <<calls, validation, print_format>>

\* no calls side by side, no validator call, no option list
NoCalls == <<>>
NoValidation == [state |-> "none"]
NoPrintFormat == [state |-> "none"]
OthersIdle == calls = NoCalls /\ validation = NoValidation /\ print_format = NoPrintFormat

NotCalled == [raised |-> "not called", value |-> EmptyDict]

NoExc == [type |-> "", text |-> "", detail |-> <<>>]
NoChild == [state |-> "none", argv |-> <<>>, read |-> ""]
NoResult == [duration |-> 0, returncode |-> 0, stdout |-> <<>>, stderr |-> <<>>]

\* the message of the throw when puppeteer_pdf.js is at neither path
NotFoundText == "Puppeteer script not found. Please ensure puppeteer_pdf.js is installed."

\* frappe.throw(text + detail): raises frappe.ValidationError
Throw(text, detail) == [type |-> "ValidationError", text |-> text, detail |-> detail]
Raise(type) == [type |-> type, text |-> "", detail |-> <<>>]

\* the state of a call not yet begun, all but its inputs
CallStart ==
  /\ pc = "start"
  /\ script_path = ""
  /\ html_path = 0
  /\ tmpdir = [k \in {} |-> ""]
  /\ puppeteer_options = EmptyDict
  /\ pdf_options_json = <<>>
  /\ child = NoChild
  /\ result = NoResult
  /\ exc = NoExc
  /\ probes = <<>>
  /\ launches = 0

Sinks(kind) ==
  IF kind = "path"
  THEN {[exists |-> FALSE, data |-> <<>>], [exists |-> TRUE, data |-> <<80>>]}
  ELSE {[exists |-> TRUE, data |-> <<>>], [exists |-> TRUE, data |-> <<80>>]}

Init ==
  /\ options \in CallOptions
  /\ map_result = NotCalled
  /\ pdf_generator \in Selectors
  /\ html \in Contents
  /\ output \in {"path", "stream"}
  /\ sink \in Sinks(output)
  /\ sink0 = sink
  /\ host \in [bundled : BOOLEAN, fallback : BOOLEAN, node : BOOLEAN]
  /\ CallStart
  /\ OthersIdle

(***************************************************************************)
(* The mapper called on its own.                                           *)
(***************************************************************************)
InitMap ==
  /\ options \in AllOptions
  /\ map_result = NotCalled
  /\ pdf_generator = "None"
  /\ html \in Contents
  /\ output = "stream"
  /\ sink = [exists |-> TRUE, data |-> <<>>]
  /\ sink0 = sink
  /\ host = [bundled |-> TRUE, fallback |-> TRUE, node |-> TRUE]
  /\ CallStart
  /\ OthersIdle

CallMapper ==
  /\ map_result = NotCalled
  /\ map_result' = map_frappe_options_to_puppeteer(options)
  /\ UNCHANGED others
  /\ UNCHANGED <<options, pdf_generator, html, output, sink, sink0, host, pc,
                 script_path, html_path, tmpdir, puppeteer_options,
                 pdf_options_json, child, result, exc, probes, launches>>

NextMap == CallMapper

SpecMap == InitMap /\ [][NextMap]_vars

(***************************************************************************)
(* get_pdf, one action per step.                                           *)
(***************************************************************************)

\* a variant that returns only when no selector is given
IsPuppeteer_AnyGiven(selector) == selector # "None"

\* if pdf_generator != "puppeteer": return
IsPuppeteer(selector) == selector = "puppeteer"

CheckGenerator ==
  /\ pc = "start"
  /\ pc' = IF IsPuppeteer(pdf_generator) THEN "locate" ELSE "done"
  /\ UNCHANGED others
  /\ UNCHANGED <<options, map_result, pdf_generator, html, output, sink, sink0, host,
                 script_path, html_path, tmpdir, puppeteer_options,
                 pdf_options_json, child, result, exc, probes, launches>>

\* a variant that looks at the bench root first
Locate_BenchFirst(h) ==
  IF h.fallback THEN [probed |-> <<"bench">>, path |-> "bench"]
  ELSE IF h.bundled THEN [probed |-> <<"bench", "app">>, path |-> "app"]
  ELSE [probed |-> <<"bench", "app">>, path |-> ""]

\* the discovery of puppeteer_pdf.js: the paths probed, in order, and the
\* path found ("" when neither exists)
Locate(h) ==
  IF h.bundled THEN [probed |-> <<"app">>, path |-> "app"]
  ELSE IF h.fallback THEN [probed |-> <<"app", "bench">>, path |-> "bench"]
  ELSE [probed |-> <<"app", "bench">>, path |-> ""]

LocateScript ==
  /\ pc = "locate"
  /\ LET found == Locate(host)
     IN /\ probes' = found.probed
        /\ script_path' = found.path
        /\ IF found.path = ""
           THEN /\ exc' = Throw(NotFoundText, <<>>)
                /\ pc' = "done"
           ELSE /\ exc' = exc
                /\ pc' = "write_html"
  /\ UNCHANGED others
  /\ UNCHANGED <<options, map_result, pdf_generator, html, output, sink, sink0, host,
                 html_path, tmpdir, puppeteer_options, pdf_options_json,
                 child, result, launches>>

\* a variant that takes a name without looking whether it is in use
FreshNames_Any(dir) == Names

\* the names NamedTemporaryFile can give its file: it creates the file
\* exclusively, so a name in use is never taken
FreshNames(dir) == Names \ DOMAIN dir

\* with tempfile.NamedTemporaryFile(mode='w', suffix='.html', delete=False):
\* a file of a name not in use, holding html, kept when closed
WriteHtml ==
  /\ pc = "write_html"
  /\ \E name \in FreshNames(tmpdir) :
       /\ tmpdir' = Put(tmpdir, name, html)
       /\ html_path' = name
  /\ pc' = "map_options"
  /\ UNCHANGED others
  /\ UNCHANGED <<options, map_result, pdf_generator, html, output, sink, sink0, host,
                 script_path, puppeteer_options, pdf_options_json, child,
                 result, exc, probes, launches>>

\* json.dumps of the mapped options: the items in the order the mapper
\* inserts them
KeyOrder == <<"format", "landscape", "margin", "printBackground", "pageRanges", "scale">>

RECURSIVE DumpFrom(_, _)
DumpFrom(d, i) ==
  IF i > Len(KeyOrder) THEN <<>>
  ELSE IF KeyOrder[i] \in DOMAIN d
       THEN <<[key |-> KeyOrder[i], value |-> d[KeyOrder[i]]]>> \o DumpFrom(d, i + 1)
       ELSE DumpFrom(d, i + 1)

JsonDumps(d) == DumpFrom(d, 1)

\* puppeteer_options = map_frappe_options_to_puppeteer(options), outside the
\* try: what the mapper raises leaves get_pdf at once
MapOptions ==
  /\ pc = "map_options"
  /\ LET mapped == map_frappe_options_to_puppeteer(options)
     IN IF mapped.raised # ""
        THEN /\ exc' = Raise(mapped.raised)
             /\ pc' = "done"
             /\ UNCHANGED <<puppeteer_options, pdf_options_json>>
        ELSE /\ puppeteer_options' = mapped.value
             /\ pdf_options_json' = JsonDumps(mapped.value)
             /\ pc' = "run"
             /\ exc' = exc
  /\ UNCHANGED others
  /\ UNCHANGED <<options, map_result, pdf_generator, html, output, sink, sink0, host,
                 script_path, html_path, tmpdir, child, result, probes, launches>>

\* subprocess.run(["node", script_path, html_path, "-"], ...): the child is
\* started, or FileNotFoundError when there is no node to execute
Launch ==
  /\ pc = "run"
  /\ IF host.node
     THEN /\ child' = [state |-> "running",
                       argv |-> <<"node", script_path, html_path, "-">>,
                       read |-> tmpdir[html_path]]
          /\ launches' = launches + 1
          /\ pc' = "wait"
          /\ exc' = exc
     ELSE /\ exc' = Raise("FileNotFoundError")
          /\ pc' = "finally"
          /\ UNCHANGED <<child, launches>>
  /\ UNCHANGED others
  /\ UNCHANGED <<options, map_result, pdf_generator, html, output, sink, sink0, host,
                 script_path, html_path, tmpdir, puppeteer_options,
                 pdf_options_json, result, probes>>

\* the child exits within the deadline
RendererExits ==
  /\ pc = "wait"
  /\ \E d \in Durations, rc \in {0, 1},
        out \in SeqsUpTo(PdfBytes, MaxOut), err \in SeqsUpTo(ErrBytes, MaxErr) :
       /\ d <= TIMEOUT
       /\ result' = [duration |-> d, returncode |-> rc, stdout |-> out, stderr |-> err]
  /\ child' = [child EXCEPT !.state = "exited"]
  /\ pc' = "handle"
  /\ UNCHANGED others
  /\ UNCHANGED <<options, map_result, pdf_generator, html, output, sink, sink0, host,
                 script_path, html_path, tmpdir, puppeteer_options,
                 pdf_options_json, exc, probes, launches>>

\* what subprocess.run does to a child still running at the deadline: it
\* kills it and waits for it
AtDeadline(c) == [c EXCEPT !.state = "killed"]

\* the child runs past the deadline, having written out so far
RendererTimesOut ==
  /\ pc = "wait"
  /\ \E d \in Durations, out \in SeqsUpTo(PdfBytes, 1) :
       /\ d > TIMEOUT
       /\ result' = [duration |-> d, returncode |-> -9, stdout |-> out, stderr |-> <<>>]
  /\ child' = AtDeadline(child)
  /\ pc' = "handle"
  /\ UNCHANGED others
  /\ UNCHANGED <<options, map_result, pdf_generator, html, output, sink, sink0, host,
                 script_path, html_path, tmpdir, puppeteer_options,
                 pdf_options_json, exc, probes, launches>>

\* bytes.decode(): the text, of a byte string that is UTF-8
Utf8(bs) == \A i \in 1..Len(bs) : bs[i] < 128
Decode(bs) == [i \in 1..Len(bs) |-> bs[i]]

\* frappe.throw(text + stderr.decode()): UnicodeDecodeError when stderr is
\* not UTF-8
ThrowWithStderr(text, stderr) ==
  IF Utf8(stderr) THEN Throw(text, Decode(stderr)) ELSE Raise("UnicodeDecodeError")

\* a variant with no handler of its own for TimeoutExpired
Handle_NoTimeoutCase(r) ==
  IF r.returncode # 0 THEN ThrowWithStderr("Puppeteer error: ", r.stderr)
  ELSE NoExc

\* the exception the body of the try ends with, given what subprocess.run
\* gave; NoExc when the bytes go to the sink
Handle(r) ==
  IF r.duration > TIMEOUT THEN Throw("PDF generation timed out.", <<>>)
  ELSE IF r.returncode # 0 THEN ThrowWithStderr("Puppeteer error: ", r.stderr)
  ELSE IF r.stdout = <<>>
       THEN ThrowWithStderr("Puppeteer failed to generate PDF: ", r.stderr)
       ELSE NoExc

HandleResult ==
  /\ pc = "handle"
  /\ exc' = Handle(result)
  /\ pc' = IF Handle(result) = NoExc THEN "write_output" ELSE "finally"
  /\ UNCHANGED others
  /\ UNCHANGED <<options, map_result, pdf_generator, html, output, sink, sink0, host,
                 script_path, html_path, tmpdir, puppeteer_options,
                 pdf_options_json, child, result, probes, launches>>

\* a variant that opens the path for appending
Written_Appending(kind, s, pdf) == [exists |-> TRUE, data |-> s.data \o pdf]

\* the sink after the bytes were written: a path is created or overwritten,
\* a stream gets them appended
Written(kind, s, pdf) ==
  IF kind = "path" THEN [exists |-> TRUE, data |-> pdf]
  ELSE [exists |-> TRUE, data |-> s.data \o pdf]

WriteOutput ==
  /\ pc = "write_output"
  /\ sink' = Written(output, sink, result.stdout)
  /\ pc' = "finally"
  /\ UNCHANGED others
  /\ UNCHANGED <<options, map_result, pdf_generator, html, output, sink0, host,
                 script_path, html_path, tmpdir, puppeteer_options,
                 pdf_options_json, child, result, exc, probes, launches>>

\* the sink cannot be written: open(output, 'wb') fails and leaves the path
\* as it was, or write fails after open truncated the file, or the stream's
\* write fails
WriteOutputFails ==
  /\ pc = "write_output"
  /\ \/ sink' = sink
     \/ output = "path" /\ sink' = [exists |-> TRUE, data |-> <<>>]
  /\ exc' = Raise("OSError")
  /\ pc' = "finally"
  /\ UNCHANGED others
  /\ UNCHANGED <<options, map_result, pdf_generator, html, output, sink0, host,
                 script_path, html_path, tmpdir, puppeteer_options,
                 pdf_options_json, child, result, probes, launches>>

\* os.unlink(path)
Unlink(dir, path) == [k \in (DOMAIN dir) \ {path} |-> dir[k]]

\* finally: os.unlink(html_path); then the call returns, or raises exc
Finally ==
  /\ pc = "finally"
  /\ tmpdir' = Unlink(tmpdir, html_path)
  /\ pc' = "done"
  /\ UNCHANGED others
  /\ UNCHANGED <<options, map_result, pdf_generator, html, output, sink, sink0, host,
                 script_path, html_path, puppeteer_options, pdf_options_json,
                 child, result, exc, probes, launches>>

Next ==
  \/ CheckGenerator
  \/ LocateScript
  \/ WriteHtml
  \/ MapOptions
  \/ Launch
  \/ RendererExits
  \/ RendererTimesOut
  \/ HandleResult
  \/ WriteOutput
  \/ WriteOutputFails
  \/ Finally

Spec == Init /\ [][Next]_vars

(***************************************************************************)
(* get_pdf calls side by side, in threads or processes of one host.  All   *)
(* that the calls share is the temporary directory, so each call is its    *)
(* steps from the temporary file on: the file written, the options mapped, *)
(* the renderer started, the renderer reading its input, the renderer      *)
(* over, the file removed.                                                 *)
(***************************************************************************)
\* the calls side by side
NumCalls == 2
CallIds == 1..NumCalls

\* the markup of call c: every call has its own
Content(c) == [i \in 1..c |-> "<p>"]

\* the options of the calls: one set the mapper maps, one it raises on
ConcOptions == {EmptyDict, Dict([k \in {"scale"} |-> PyStr(<<"a">>)])}

\* the variables of the single call, all but tmpdir
single == <<options, map_result, pdf_generator, html, output, sink, sink0, host, pc,
            script_path, html_path, puppeteer_options, pdf_options_json,
            child, result, exc, probes, launches>>

\* no single call under way: its variables at rest
GetPdfIdle ==
  /\ options = EmptyDict
  /\ map_result = NotCalled
  /\ pdf_generator = "None"
  /\ html \in Contents
  /\ output = "stream"
  /\ sink = [exists |-> TRUE, data |-> <<>>]
  /\ sink0 = sink
  /\ host = [bundled |-> TRUE, fallback |-> TRUE, node |-> TRUE]
  /\ CallStart

InitConc ==
  /\ GetPdfIdle
  /\ calls \in [CallIds -> [pc : {"write_html"}, options : ConcOptions,
                            html_path : {0}, read : {<<>>}, removed : {FALSE}]]
  /\ validation = NoValidation
  /\ print_format = NoPrintFormat

ConcWriteHtml(c) ==
  /\ calls[c].pc = "write_html"
  /\ \E name \in FreshNames(tmpdir) :
       /\ tmpdir' = Put(tmpdir, name, Content(c))
       /\ calls' = [calls EXCEPT ![c].html_path = name, ![c].pc = "map_options"]
  /\ UNCHANGED <<single, validation, print_format>>

ConcMapOptions(c) ==
  /\ calls[c].pc = "map_options"
  /\ calls' = [calls EXCEPT ![c].pc =
                 IF map_frappe_options_to_puppeteer(calls[c].options).raised # ""
                 THEN "done" ELSE "run"]
  /\ UNCHANGED <<single, tmpdir, validation, print_format>>

ConcLaunch(c) ==
  /\ calls[c].pc = "run"
  /\ calls' = [calls EXCEPT ![c].pc = "wait"]
  /\ UNCHANGED <<single, tmpdir, validation, print_format>>

\* the renderer of call c reads the file its argv names
ConcRendererReads(c) ==
  /\ calls[c].pc = "wait"
  /\ calls[c].read = <<>>
  /\ calls' = [calls EXCEPT ![c].read =
                 IF calls[c].html_path \in DOMAIN tmpdir
                 THEN tmpdir[calls[c].html_path] ELSE <<"ENOENT">>]
  /\ UNCHANGED <<single, tmpdir, validation, print_format>>

\* the renderer of call c exits, or is killed at the deadline
ConcRendererEnds(c) ==
  /\ calls[c].pc = "wait"
  /\ calls' = [calls EXCEPT ![c].pc = "finally"]
  /\ UNCHANGED <<single, tmpdir, validation, print_format>>

ConcFinally(c) ==
  /\ calls[c].pc = "finally"
  /\ tmpdir' = Unlink(tmpdir, calls[c].html_path)
  /\ calls' = [calls EXCEPT ![c].pc = "done", ![c].removed = TRUE]
  /\ UNCHANGED <<single, validation, print_format>>

NextConc ==
  \E c \in CallIds :
    \/ ConcWriteHtml(c)
    \/ ConcMapOptions(c)
    \/ ConcLaunch(c)
    \/ ConcRendererReads(c)
    \/ ConcRendererEnds(c)
    \/ ConcFinally(c)

SpecConc == InitConc /\ [][NextConc]_vars

(***************************************************************************)
(* Cancellation: the caller's interrupt (KeyboardInterrupt, raised between *)
(* two steps of get_pdf).  Before the try it leaves get_pdf at once; in    *)
(* subprocess.run the child is killed and waited for before it is raised   *)
(* again; inside the try the finally clause runs before it goes on.        *)
(***************************************************************************)

\* where the interrupt takes get_pdf from position p: "done" outside the
\* try, "finally" inside it; at "run" the try is being entered, and either
\* may happen
AfterInterrupt(p) ==
  CASE p \in {"start", "locate", "write_html", "map_options"} -> {"done"}
    [] p = "run" -> {"done", "finally"}
    [] OTHER -> {"finally"}

Cancel ==
  /\ pc \notin {"finally", "done"}
  /\ pc' \in AfterInterrupt(pc)
  /\ exc' = Raise("KeyboardInterrupt")
  /\ child' = IF child.state = "running" THEN [child EXCEPT !.state = "killed"] ELSE child
  /\ UNCHANGED others
  /\ UNCHANGED <<options, map_result, pdf_generator, html, output, sink, sink0, host,
                 script_path, html_path, tmpdir, puppeteer_options,
                 pdf_options_json, result, probes, launches>>

NextCancel == Next \/ Cancel

SpecCancel == Init /\ [][NextCancel]_vars

(***************************************************************************)
(* The patches of the framework's validator of parameter types.  The       *)
(* validator itself, frappe.utils.typing_validations                        *)
(* .transform_parameter_types, is the framework's: it is modelled by what  *)
(* the patches rely on.  It returns (args, kwargs) as they are when there  *)
(* is nothing to validate, raises when an annotated parameter has a value  *)
(* its annotation does not admit, and otherwise returns the arguments and  *)
(* the keyword dict: the dict it was given or, in the variant alias =      *)
(* FALSE, a copy of it.  A dict is an object: what a patch writes into the *)
(* caller's kwargs the caller sees, and what it writes into a returned     *)
(* dict that is the caller's the caller sees too.                          *)
(***************************************************************************)
Str(w) == PyStr(<<w>>)

\* an argument that is no plain value: a function, a tuple, a dict
Opaque(kind) == [tag |-> kind, n |-> 0, s |-> <<>>]

\* the functions validated: one like print_format.download_pdf, one with
\* only pdf_generator annotated, one without annotations
Funcs == {"download_pdf", "get_pdf", "untyped"}

\* inspect.signature(func).parameters.keys()
Params(f) ==
  IF f = "download_pdf" THEN <<"doctype", "pdf_generator">> ELSE <<"html", "pdf_generator">>

\* func.__annotations__
Annotations(f) ==
  CASE f = "download_pdf" -> [k \in {"doctype", "pdf_generator"} |->
                                IF k = "doctype" THEN "str" ELSE "generator"]
    [] f = "get_pdf" -> [k \in {"pdf_generator"} |-> "generator"]
    [] OTHER -> [k \in {} |-> ""]

\* a value is of an annotated type: str, or
\* Literal["wkhtmltopdf", "chrome"] | None
Accepts(type, v) ==
  IF type = "str" THEN v.tag = "str"
  ELSE v \in {PyNone, Str("wkhtmltopdf"), Str("chrome")}

\* the indexes of the positional arguments that have a parameter name
Named(f, args) == {i \in 1..Len(args) : i <= Len(Params(f))}

\* all_params: the positional arguments under their parameter names,
\* updated with kwargs
AllParams(f, args, kw) ==
  LET names == Params(f)
      pos == {names[i] : i \in Named(f, args)}
  IN [k \in pos \cup DOMAIN kw |->
        IF k \in DOMAIN kw THEN kw[k]
        ELSE args[CHOOSE i \in Named(f, args) : names[i] = k]]

\* the framework's validator, called with kwargs that is the caller's dict
\* (own) or another; caller is what the caller's dict holds, log the calls
\* of the validator so far
transform_parameter_types(alias, f, args, kw, own, caller, log) ==
  LET early == (args = <<>> /\ DOMAIN kw = {}) \/ DOMAIN Annotations(f) = {}
      given == AllParams(f, args, kw)
      ok == early \/ \A k \in DOMAIN Annotations(f) \cap DOMAIN given :
                        Accepts(Annotations(f)[k], given[k])
  IN [raised |-> ~ok,
      args |-> IF ok THEN args ELSE <<>>,
      kwargs |-> IF ok THEN kw ELSE EmptyDict,
      shared |-> ok /\ own /\ (early \/ alias),
      caller |-> caller,
      calls |-> Append(log, [func |-> f, args |-> args, kwargs |-> kw])]

is_pdf_generator_parameter(f, args, kw) ==
  IF args = <<>> /\ DOMAIN kw = {} THEN FALSE
  ELSE IF Get(kw, "method") = Str("frappe.utils.print_format.download_pdf") THEN TRUE
  ELSE "pdf_generator" \in DOMAIN AllParams(f, args, kw)

\* the index of the positional argument that is pdf_generator, in a set
PositionOf(f, args) == {i \in Named(f, args) : Params(f)[i] = "pdf_generator"}

\* the pdf_generator of the call: from kwargs first, then from args; Missing
\* when the call has none
PdfGeneratorValue(f, args, kw) ==
  IF "pdf_generator" \in DOMAIN kw THEN kw["pdf_generator"]
  ELSE IF PositionOf(f, args) # {} THEN args[CHOOSE i \in PositionOf(f, args) : TRUE]
  ELSE Missing

\* a variant that handles every call as a puppeteer call
NeedsSubstitute_AnyValue(v) == TRUE

\* pdf_generator_value == 'puppeteer'
NeedsSubstitute(v) == v = Str("puppeteer")

\* the patch of overrides/pdf_generator_validation.py.  On 'puppeteer' it
\* calls wrapped_func(func, args, kwargs): inner_args is the tuple
\* (func, args, kwargs) and inner_kwargs is empty, so the branch that
\* substitutes is not taken and the validator gets these three as args
patched_transform_parameter_types(alias, f, args, kw, log) ==
  IF /\ is_pdf_generator_parameter(f, args, kw)
     /\ NeedsSubstitute(PdfGeneratorValue(f, args, kw))
  THEN transform_parameter_types(alias, f,
         <<Opaque("function"), Opaque("tuple"), Opaque("dict")>>, EmptyDict, FALSE, kw, log)
  ELSE transform_parameter_types(alias, f, args, kw, TRUE, kw, log)

\* what install.py finds under the validator's name when it patches: the
\* framework's validator ("O"), or the patch of overrides ("A")
original_transform(orig, alias, f, args, kw, log) ==
  IF orig = "A" THEN patched_transform_parameter_types(alias, f, args, kw, log)
  ELSE transform_parameter_types(alias, f, args, kw, TRUE, kw, log)

\* the patch of install.py
patched_transform(orig, alias, f, args, kw, log) ==
  IF NeedsSubstitute(PdfGeneratorValue(f, args, kw))
  THEN LET keyword == "pdf_generator" \in DOMAIN kw
           kw1 == IF keyword THEN Put(kw, "pdf_generator", Str("chrome")) ELSE kw
           args1 == IF ~keyword /\ PositionOf(f, args) # {}
                    THEN [args EXCEPT ![CHOOSE i \in PositionOf(f, args) : TRUE] = Str("chrome")]
                    ELSE args
           r == original_transform(orig, alias, f, args1, kw1, log)
       IN IF ~r.raised
          THEN [r EXCEPT !.kwargs = Put(r.kwargs, "pdf_generator", Str("puppeteer")),
                         !.caller = IF r.shared
                                    THEN Put(r.caller, "pdf_generator", Str("puppeteer"))
                                    ELSE r.caller]
          ELSE original_transform(orig, alias, f, args1, r.caller, r.calls)
  ELSE original_transform(orig, alias, f, args, kw, log)

\* what is installed under the validator's name: the patch of overrides
\* (the package's import), the patch of install.py (over the framework's
\* validator), or the patch of install.py over the patch of overrides
Installed == {"A", "B", "BA"}

Patched(impl, alias, f, args, kw) ==
  CASE impl = "A" -> patched_transform_parameter_types(alias, f, args, kw, <<>>)
    [] impl = "B" -> patched_transform("O", alias, f, args, kw, <<>>)
    [] OTHER -> patched_transform("A", alias, f, args, kw, <<>>)

\* the calls of the validator: the first argument and pdf_generator each by
\* position, by keyword or not at all, with values the annotations admit
\* and values they do not
FirstValues == {Str("Invoice"), PyInt(1)}
GeneratorValues == {Str("puppeteer"), Str("chrome"), Str("bogus"), PyNone}
MethodValues == {Str("frappe.utils.print_format.download_pdf")}

ArgsOf(n) ==
  CASE n = 0 -> {<<>>}
    [] n = 1 -> {<<v>> : v \in FirstValues}
    [] OTHER -> {<<v, g>> : v \in FirstValues, g \in GeneratorValues}

KwargsOf(f, n) ==
  LET first == Params(f)[1]
      keys == {first, "pdf_generator", "method"}
      Allowed(k) ==
        CASE k = first -> IF n >= 1 THEN {Missing} ELSE FirstValues \cup {Missing}
          [] k = "pdf_generator" -> IF n >= 2 THEN {Missing} ELSE GeneratorValues \cup {Missing}
          [] OTHER -> MethodValues \cup {Missing}
      all == FirstValues \cup GeneratorValues \cup MethodValues \cup {Missing}
  IN {Dict(d) : d \in {e \in [keys -> all] : \A k \in keys : e[k] \in Allowed(k)}}

NoOut == [raised |-> FALSE, args |-> <<>>, kwargs |-> EmptyDict, shared |-> FALSE,
          caller |-> EmptyDict, calls |-> <<>>]

InitVal ==
  /\ GetPdfIdle
  /\ calls = NoCalls
  /\ print_format = NoPrintFormat
  /\ \E impl \in Installed, alias \in BOOLEAN, f \in Funcs, n \in 0..2 :
       \E args \in ArgsOf(n), kw \in KwargsOf(f, n) :
         validation = [state |-> "called", impl |-> impl, alias |-> alias, func |-> f,
                       args |-> args, kwargs |-> kw, out |-> NoOut]

\* one call of the installed validator
CallValidator ==
  /\ validation.state = "called"
  /\ validation' = [validation EXCEPT
                      !.state = "returned",
                      !.out = Patched(validation.impl, validation.alias, validation.func,
                                      validation.args, validation.kwargs)]
  /\ UNCHANGED <<single, tmpdir, calls, print_format>>

NextVal == CallValidator

SpecVal == InitVal /\ [][NextVal]_vars

(***************************************************************************)
(* The options of Print Format's pdf_generator field: one string, an       *)
(* option a line.  A string is a sequence of pieces of text: the words     *)
(* "chrome", "puppeteer" and "x", the blank " " and the line break "\n";   *)
(* pieces side by side are one word ("puppeteer" then "x" is the option    *)
(* "puppeteerx").  add_pdf_generator_option and remove_pdf_generator_option*)
(* are install.py's, execute is the patch's; the property setter stores    *)
(* what it is given.                                                       *)
(***************************************************************************)
OptionPieces == {"chrome", "puppeteer", "x", " ", "\n"}

\* the option 'puppeteer'
Puppeteer == <<"puppeteer">>

\* where the piece c is in the string s
IndexesOf(s, c) == {i \in 1..Len(s) : s[i] = c}

\* s.split("\n")
RECURSIVE Split(_)
Split(s) ==
  IF IndexesOf(s, "\n") = {} THEN <<s>>
  ELSE LET i == CHOOSE j \in IndexesOf(s, "\n") : \A k \in IndexesOf(s, "\n") : j <= k
       IN <<SubSeq(s, 1, i - 1)>> \o Split(SubSeq(s, i + 1, Len(s)))

\* opt.strip()
RECURSIVE Strip(_)
Strip(l) ==
  IF l = <<>> THEN l
  ELSE IF Head(l) = " " THEN Strip(Tail(l))
  ELSE IF l[Len(l)] = " " THEN Strip(SubSeq(l, 1, Len(l) - 1))
  ELSE l

NotEmpty(l) == l # <<>>

\* [opt.strip() for opt in options.split("\n") if opt.strip()]
OptionsList(s) ==
  LET lines == Split(s)
  IN SelectSeq([i \in 1..Len(lines) |-> Strip(lines[i])], NotEmpty)

\* "\n".join(options)
RECURSIVE Join(_)
Join(opts) ==
  IF opts = <<>> THEN <<>>
  ELSE IF Len(opts) = 1 THEN opts[1]
  ELSE opts[1] \o <<"\n">> \o Join(Tail(opts))

\* x in options
In(x, opts) == \E i \in 1..Len(opts) : opts[i] = x

\* options.remove(x): without the first x
Remove(opts, x) ==
  LET i == CHOOSE j \in 1..Len(opts) : opts[j] = x /\ \A k \in 1..(j - 1) : opts[k] # x
  IN SubSeq(opts, 1, i - 1) \o SubSeq(opts, i + 1, Len(opts))

\* "puppeteer" in current_options: the text is somewhere in the string
is_patch_applied(s) == IndexesOf(s, "puppeteer") # {}

\* the option strings at the start: 'puppeteer' is an option at most once
RawOptions ==
  {s \in SeqsUpTo(OptionPieces, MaxRaw) :
     \A i, j \in 1..Len(OptionsList(s)) :
       (OptionsList(s)[i] = Puppeteer /\ OptionsList(s)[j] = Puppeteer) => i = j}

InitOpt ==
  /\ GetPdfIdle
  /\ calls = NoCalls
  /\ validation = NoValidation
  /\ \E s \in RawOptions :
       print_format = [state |-> "stored", options |-> s, options0 |-> s, before |-> s,
                       last |-> "none", prev |-> "none"]

\* a function of the package has run and left the options as stored
Ran(op, stored) ==
  /\ print_format' = [print_format EXCEPT !.options = stored,
                                          !.before = print_format.options,
                                          !.last = op,
                                          !.prev = print_format.last]
  /\ UNCHANGED <<single, tmpdir, calls, validation>>

add_pdf_generator_option ==
  /\ print_format.state # "none"
  /\ LET options_ == OptionsList(print_format.options)
     IN Ran("add", IF ~In(Puppeteer, options_)
                   THEN Join(Append(options_, Puppeteer))
                   ELSE print_format.options)

execute ==
  /\ print_format.state # "none"
  /\ LET options_list == OptionsList(print_format.options)
     IN Ran("execute", IF is_patch_applied(print_format.options) THEN print_format.options
                       ELSE IF In(Puppeteer, options_list) THEN print_format.options
                       ELSE Join(Append(options_list, Puppeteer)))

remove_pdf_generator_option ==
  /\ print_format.state # "none"
  /\ LET options_ == OptionsList(print_format.options)
     IN Ran("remove", IF In(Puppeteer, options_)
                      THEN Join(Remove(options_, Puppeteer))
                      ELSE print_format.options)

NextOpt == add_pdf_generator_option \/ execute \/ remove_pdf_generator_option

SpecOpt == InitOpt /\ [][NextOpt]_vars

(***************************************************************************)
(* The claims.                                                             *)
(***************************************************************************)

\* the failure kind of an exception: the kind of each frappe.throw of
\* get_pdf; any other exception has none
FailureKind(e) ==
  IF e.type # "ValidationError" THEN "Unclassified"
  ELSE CASE e.text = NotFoundText -> "RendererNotInstalled"
         [] e.text = "PDF generation timed out." -> "Timeout"
         [] e.text = "Puppeteer error: " -> "RenderFailed"
         [] e.text = "Puppeteer failed to generate PDF: " -> "RenderFailed"
         [] OTHER -> "Unclassified"

Kinds == {"InvalidOption", "RendererNotInstalled", "Timeout", "RenderFailed"}

\* the call is over: it returned (exc = NoExc) or raised exc
Ended == pc = "done"
\* the temporary file of this call is in the temporary directory
TempFileExists == html_path \in DOMAIN tmpdir
\* the renderer exited with code 0 and bytes on stdout within the deadline
RendererSucceeded ==
  /\ child.state = "exited"
  /\ result.duration <= TIMEOUT
  /\ result.returncode = 0
  /\ result.stdout # <<>>

\* C1: when a call that created the temporary file has ended, by return or
\* by any exception, the file no longer exists.
C1_TempFileRemovedOnEveryExit ==
  (Ended /\ html_path # 0) => ~TempFileExists

C3_EveryFailureClassified ==
  (Ended /\ exc # NoExc) => (FailureKind(exc) \in Kinds /\ ~TempFileExists)

\* C4: when the renderer ran past the deadline, the child is no longer
\* running, the sink is as it was, and the call ends by the Timeout failure.
C4_Timeout ==
  result.duration > TIMEOUT =>
    /\ child.state = "killed"
    /\ sink = sink0
    /\ pc \in {"handle", "finally", "done"}
    /\ pc \in {"finally", "done"} => FailureKind(exc) = "Timeout"
    /\ Ended => ~TempFileExists

\* a call ended by the timeout of a renderer that had written a byte
C4_Witness ==
  /\ Ended /\ result.duration > TIMEOUT /\ result.stdout # <<>>
  /\ FailureKind(exc) = "Timeout"

\* C5: the bundled path is probed first and the bench path only when the
\* bundled one does not exist; when neither exists the call ends by
\* RendererNotInstalled, with no child launched and no temporary file.
C5_Discovery ==
  probes # <<>> =>
    /\ probes[1] = "app"
    /\ (Len(probes) > 1) <=> ~host.bundled
    /\ Len(probes) > 1 => probes = <<"app", "bench">>
    /\ host.bundled => script_path = "app"
    /\ (~host.bundled /\ host.fallback) => script_path = "bench"
    /\ (~host.bundled /\ ~host.fallback) =>
         /\ Ended /\ FailureKind(exc) = "RendererNotInstalled"
         /\ launches = 0 /\ child.state = "none"
         /\ html_path = 0 /\ DOMAIN tmpdir = {}

\* a call ended because the script is at neither path
C5_Witness ==
  /\ Ended /\ probes = <<"app", "bench">> /\ script_path = ""
  /\ FailureKind(exc) = "RendererNotInstalled"

\* C6: when the renderer exited otherwise than with code 0 and bytes on
\* stdout, the call ends by RenderFailed with the captured stderr in the
\* message, and the sink is as it was.
C6_RenderFailedCarriesStderr ==
  (Ended /\ child.state = "exited" /\ ~RendererSucceeded) =>
    /\ FailureKind(exc) = "RenderFailed"
    /\ exc.detail = result.stderr
    /\ sink = sink0

\* C7: with a selector other than "puppeteer" the call only returns: no
\* temporary file, no probe of the script, no child, no write to the sink.
C7_NoOpForOtherGenerators ==
  pdf_generator # "puppeteer" =>
    /\ pc \in {"start", "done"}
    /\ exc = NoExc
    /\ html_path = 0 /\ DOMAIN tmpdir = {}
    /\ probes = <<>> /\ script_path = ""
    /\ launches = 0 /\ child = NoChild
    /\ sink = sink0

\* a call for the chrome generator has returned
C7_Witness == Ended /\ pdf_generator = "chrome" /\ exc = NoExc

\* the options were mapped (or the mapping raised) in this call
Mapped == html_path # 0 /\ pc # "map_options"

\* C8: after the mapping, a numeric scale is a float field of the mapped
\* options, a scale that is no number has ended the call by InvalidOption,
\* and without a scale there is no scale field.
C8_ScaleMapping ==
  Mapped =>
    IF "scale" \notin DOMAIN options
    THEN "scale" \notin DOMAIN puppeteer_options
    ELSE IF FloatOk(options["scale"])
         THEN /\ "scale" \in DOMAIN puppeteer_options
              /\ puppeteer_options["scale"].tag = "float"
         ELSE Ended /\ FailureKind(exc) = "InvalidOption"

\* the sides of the margin the caller set
SidesSet == {side \in Sides : MarginKey(side) \in DOMAIN options}

\* C9: the mapped options hold a margin object iff a side is set, and its
\* keys are the sides set, each with its value; a side set to 0 is set.
C9_MarginKeysAreTheSidesSet ==
  map_result.raised = "" =>
    /\ "margin" \in DOMAIN map_result.value <=> SidesSet # {}
    /\ "margin" \in DOMAIN map_result.value =>
         /\ DOMAIN map_result.value["margin"] = SidesSet
         /\ \A side \in SidesSet :
              map_result.value["margin"][side] = options[MarginKey(side)]

\* C10: landscape is true iff the orientation is "Landscape", false iff it
\* is "Portrait", and without an orientation there is no such field.
C10_Orientation ==
  map_result.raised = "" =>
    LET mapped == map_result.value
        orientation == Get(options, "orientation")
    IN /\ ("landscape" \in DOMAIN mapped /\ mapped["landscape"] = PyBool(TRUE))
            <=> orientation = PyStr(<<"Landscape">>)
       /\ ("landscape" \in DOMAIN mapped /\ mapped["landscape"] = PyBool(FALSE))
            <=> orientation = PyStr(<<"Portrait">>)
       /\ "orientation" \notin DOMAIN options =>
            DOMAIN mapped \cap {"landscape", "orientation"} = {}

\* options without an orientation were mapped to other fields
C10_Witness ==
  /\ map_result.raised = ""
  /\ "orientation" \notin DOMAIN options
  /\ {"format", "margin"} \subseteq DOMAIN map_result.value

\* C11: the mapped options hold printBackground only when the input's
\* print-background is truthy, and then it is true: false is never emitted.
C11_PrintBackgroundOnlyTrue ==
  map_result.raised = "" =>
    LET mapped == map_result.value
    IN /\ "printBackground" \in DOMAIN mapped <=>
            ("print-background" \in DOMAIN options
               /\ options["print-background"] \in {PyBool(TRUE), PyInt(1)})
       /\ "printBackground" \in DOMAIN mapped =>
            mapped["printBackground"] = PyBool(TRUE)

\* options whose print-background is False were mapped, and others whose
\* print-background is 1
C11_Witness ==
  /\ map_result.raised = ""
  /\ "print-background" \in DOMAIN options
  /\ options["print-background"] = PyBool(FALSE)
  /\ "format" \in DOMAIN map_result.value

\* C13: when a call ends by the caller's interrupt, the child is not
\* running and the temporary file, if one was created, is removed.
C13_CancelCleansUp ==
  (Ended /\ exc.type = "KeyboardInterrupt") =>
    (child.state # "running" /\ ~TempFileExists)

\* the outcome a call ended with, of the four of the per-call state machine
Outcome ==
  IF exc = NoExc THEN "Succeeded"
  ELSE CASE FailureKind(exc) = "Timeout" -> "TimedOut"
         [] FailureKind(exc) = "RenderFailed" -> "RendererFailed"
         [] FailureKind(exc) = "RendererNotInstalled" -> "NotFound"
         [] OTHER -> "none"

\* C15: in a call for puppeteer the temporary file is written before the
\* renderer is found missing or launched, the renderer is launched at most
\* once and only after the file was written and the options serialized,
\* and the call ends with one of the four outcomes reached and the file,
\* written earlier, removed.
C15_StateMachineOrder ==
  pdf_generator = "puppeteer" =>
    /\ (probes # <<>> /\ script_path = "") => html_path # 0
    /\ launches <= 1
    /\ launches = 1 => (html_path # 0 /\ Mapped /\ exc.type # "ValueError")
    /\ Ended =>
         /\ Outcome \in {"Succeeded", "TimedOut", "RendererFailed", "NotFound"}
         /\ html_path # 0 /\ ~TempFileExists

\* call c has a temporary file: it created one and has not removed it
HasFile(c) == calls[c].html_path # 0 /\ ~calls[c].removed

\* C12: with calls side by side, the temporary files of two calls have
\* different names, the file of each call is there with that call's markup
\* until the call itself removes it, and each renderer reads its own call's
\* markup.
C12_CallsKeepToTheirOwnFile ==
  calls # NoCalls =>
    \A c \in CallIds :
      /\ HasFile(c) =>
           /\ calls[c].html_path \in DOMAIN tmpdir
           /\ tmpdir[calls[c].html_path] = Content(c)
           /\ \A d \in CallIds \ {c} :
                HasFile(d) => calls[d].html_path # calls[c].html_path
      /\ calls[c].read # <<>> => calls[c].read = Content(c)

\* two renderers run at once, each having read its own call's file
C12_Witness ==
  /\ calls # NoCalls
  /\ \A c \in {1, 2} : calls[c].pc = "wait" /\ calls[c].read = Content(c)
  /\ calls[1].html_path # calls[2].html_path

\* the call of the validator is over
Returned == validation.state = "returned"

\* the pdf_generator the validator was called with, Missing if none
PassedValue == PdfGeneratorValue(validation.func, validation.args, validation.kwargs)

\* the values of a sequence or dict
Range(f) == {f[x] : x \in DOMAIN f}

\* C14: a call of the installed validator with pdf_generator = 'puppeteer',
\* by keyword or by position, whose other arguments are valid (the
\* framework's validator accepts the call with 'chrome' in its place), is
\* accepted, and what it returns has pdf_generator = 'puppeteer' and
\* everything else as the framework's validator returns it.
C14_PuppeteerAccepted ==
  (Returned /\ PassedValue = Str("puppeteer")) =>
    LET v == validation
        keyword == "pdf_generator" \in DOMAIN v.kwargs
        pos == CHOOSE i \in PositionOf(v.func, v.args) \cup {0} :
                 i = 0 => PositionOf(v.func, v.args) = {}
        kwc == IF keyword THEN Put(v.kwargs, "pdf_generator", Str("chrome")) ELSE v.kwargs
        argsc == IF keyword THEN v.args ELSE [v.args EXCEPT ![pos] = Str("chrome")]
        ref == transform_parameter_types(v.alias, v.func, argsc, kwc, TRUE, kwc, <<>>)
    IN ~ref.raised =>
         /\ ~v.out.raised
         /\ v.out.args = IF keyword THEN ref.args
                         ELSE [ref.args EXCEPT ![pos] = Str("puppeteer")]
         /\ v.out.kwargs = IF keyword THEN Put(ref.kwargs, "pdf_generator", Str("puppeteer"))
                           ELSE ref.kwargs

\* C16: a call of the installed validator without pdf_generator, or with
\* one that is not 'puppeteer', is one call of the framework's validator
\* with the same func, args and kwargs, and ends as that call ends, with
\* the caller's kwargs as they were; so for each patch and for the two
\* stacked.
C16_OthersPassThrough ==
  (Returned /\ PassedValue # Str("puppeteer")) =>
    LET v == validation
    IN v.out = transform_parameter_types(v.alias, v.func, v.args, v.kwargs,
                                         TRUE, v.kwargs, <<>>)

\* the stacked patches have passed a call with pdf_generator = 'chrome' by
\* position on to the framework's validator, which accepted it
C16_Witness ==
  /\ Returned
  /\ validation.impl = "BA"
  /\ validation.func = "download_pdf"
  /\ "method" \in DOMAIN validation.kwargs
  /\ Len(validation.args) = 2 /\ validation.args[2] = Str("chrome")
  /\ ~validation.out.raised
  /\ Len(validation.out.calls) = 1

\* C17: after a call with pdf_generator = 'puppeteer', returned or raised,
\* the caller's kwargs are as they were, and 'chrome' is in nothing that
\* is returned.
C17_CallerNeverSeesChrome ==
  (Returned /\ PassedValue = Str("puppeteer")) =>
    /\ validation.out.caller = validation.kwargs
    /\ ~validation.out.raised =>
         /\ Str("chrome") \notin Range(validation.out.args)
         /\ Str("chrome") \notin Range(validation.out.kwargs)

\* the options other than 'puppeteer', in their order
OtherOptions(s) ==
  LET IsOther(o) == o # Puppeteer
  IN SelectSeq(OptionsList(s), IsOther)

\* how many of the options are 'puppeteer'
Puppeteers(s) == Cardinality({i \in 1..Len(OptionsList(s)) : OptionsList(s)[i] = Puppeteer})

\* C18: whatever of add_pdf_generator_option, execute and
\* remove_pdf_generator_option has run, 'puppeteer' is an option at most
\* once and the other options are the ones of the start in their order;
\* after add_pdf_generator_option or execute it is an option exactly once,
\* and one of the two after the other has changed nothing; after
\* remove_pdf_generator_option it is no option.
C18_OptionList ==
  print_format.state # "none" =>
    /\ Puppeteers(print_format.options) <= 1
    /\ OtherOptions(print_format.options) = OtherOptions(print_format.options0)
    /\ print_format.last \in {"add", "execute"} => Puppeteers(print_format.options) = 1
    /\ (print_format.last \in {"add", "execute"} /\ print_format.prev \in {"add", "execute"})
         => print_format.options = print_format.before
    /\ print_format.last = "remove" => Puppeteers(print_format.options) = 0

====
